---- MODULE Spec2Model ----
(***************************************************************************)
(* ironsegment: the version 1 binary container (binary1.py), its manifest  *)
(* codec (xml.py) and the manifest records (model.py).                     *)
(*                                                                         *)
(* A file is a sequence of bytes.  Unsigned integers that the code packs   *)
(* with struct.pack(">Q"/">L") are sequences of big-endian bytes; the      *)
(* 64-bit identifiers of the format exceed the integer range of the model  *)
(* checker and are therefore written as their eight big-endian bytes.      *)
(***************************************************************************)
EXTENDS Integers, Sequences, FiniteSets, TLC

VARIABLES manifest, origin, file, writer, reader, view, sample, identifier

vars ==
    <<manifest, origin, file, writer, reader, view, sample, identifier>>

(***************************************************************************)
(* Bounds of the model.                                                    *)
(***************************************************************************)
\* Images.width ranges over 1..MaxWidth.
MaxWidth == 2

\* Images.height ranges over 1..MaxHeight.
MaxHeight == 2

\* A manifest holds at most MaxImages images, with identifiers 1..MaxImages.
MaxImages == 2

\* unpack() saturates here: every file of the model is far shorter, so a
\* larger stored value behaves as this one does (it points past the end).
UnpackClamp == 16777216

(***************************************************************************)
(* model.py                                                                *)
(***************************************************************************)
\* ImageID(value) and ObjectID(value) are constructed iff value is in
\* [1, 4294967295].  Every value of the model is below the upper limit, which
\* UnpackClamp stands for where a stored value saturates.
IdentifierInRange(value) == value >= 1 /\ value <= UnpackClamp

\* A Python integer beyond the range of the model checker, as the pair of
\* its floor quotient and its remainder by 65536: hi * 65536 + lo.
Wide(hi, lo) == [hi |-> hi, lo |-> lo]

\* a <= b
WideAtMost(a, b) == a.hi < b.hi \/ (a.hi = b.hi /\ a.lo <= b.lo)

\* MAX_ID_VALUE_INCLUSIVE = 4294967295
MAX_ID_VALUE_INCLUSIVE == Wide(65535, 65535)

\* An ImageID that admits zero.
ImageID_from_zero(value) ==
    IF ~WideAtMost(Wide(0, 0), value)
    THEN [ok |-> FALSE, error |-> "IDs must be in the range"]
    ELSE IF ~WideAtMost(value, MAX_ID_VALUE_INCLUSIVE)
    THEN [ok |-> FALSE, error |-> "IDs must be in the range"]
    ELSE [ok |-> TRUE, value |-> value]

\* ImageID(value): not value >= 1 raises, not value <= MAX_ID_VALUE_INCLUSIVE
\* raises, otherwise self._value = value.
ImageID(value) ==
    IF ~WideAtMost(Wide(0, 1), value)
    THEN [ok |-> FALSE, error |-> "IDs must be in the range"]
    ELSE IF ~WideAtMost(value, MAX_ID_VALUE_INCLUSIVE)
    THEN [ok |-> FALSE, error |-> "IDs must be in the range"]
    ELSE [ok |-> TRUE, value |-> value]

\* ObjectID(value)
ObjectID(value) ==
    IF ~WideAtMost(Wide(0, 1), value)
    THEN [ok |-> FALSE, error |-> "IDs must be in the range"]
    ELSE IF ~WideAtMost(value, MAX_ID_VALUE_INCLUSIVE)
    THEN [ok |-> FALSE, error |-> "IDs must be in the range"]
    ELSE [ok |-> TRUE, value |-> value]

ImageSemantic ==
    { "DENOISE_RGB16", "DENOISE_RGB8", "DENOISE_RGBA16", "DENOISE_RGBA8",
      "DEPTH_16", "DEPTH_32", "MONOCHROME_LINES_8", "OBJECT_ID_32" }

\* ImageSemantic.<name>.value
SemanticValue(s) ==
    CASE s = "DENOISE_RGB16" -> 0
      [] s = "DENOISE_RGB8" -> 1
      [] s = "DENOISE_RGBA16" -> 2
      [] s = "DENOISE_RGBA8" -> 3
      [] s = "DEPTH_16" -> 4
      [] s = "DEPTH_32" -> 5
      [] s = "MONOCHROME_LINES_8" -> 6
      [] s = "OBJECT_ID_32" -> 7

\* ImageSemantic.<name>.name, as ASCII bytes
SemanticName(s) ==
    CASE s = "DENOISE_RGB16" ->
           <<68, 69, 78, 79, 73, 83, 69, 95, 82, 71, 66, 49, 54>>
      [] s = "DENOISE_RGB8" ->
           <<68, 69, 78, 79, 73, 83, 69, 95, 82, 71, 66, 56>>
      [] s = "DENOISE_RGBA16" ->
           <<68, 69, 78, 79, 73, 83, 69, 95, 82, 71, 66, 65, 49, 54>>
      [] s = "DENOISE_RGBA8" ->
           <<68, 69, 78, 79, 73, 83, 69, 95, 82, 71, 66, 65, 56>>
      [] s = "DEPTH_16" ->
           <<68, 69, 80, 84, 72, 95, 49, 54>>
      [] s = "DEPTH_32" ->
           <<68, 69, 80, 84, 72, 95, 51, 50>>
      [] s = "MONOCHROME_LINES_8" ->
           <<77, 79, 78, 79, 67, 72, 82, 79, 77, 69, 95, 76, 73, 78, 69, 83,
             95, 56>>
      [] s = "OBJECT_ID_32" ->
           <<79, 66, 74, 69, 67, 84, 95, 73, 68, 95, 51, 50>>

\* The size in bytes of one element of the typed array image_data builds:
\* dtype ">u4", ">u2" or "B".
ElementSize(s) ==
    CASE s \in {"OBJECT_ID_32", "DEPTH_32"} -> 4
      [] s \in {"DEPTH_16", "DENOISE_RGBA16", "DENOISE_RGB16"} -> 2
      [] s \in {"DENOISE_RGB8", "DENOISE_RGBA8", "MONOCHROME_LINES_8"} -> 1

\* The elements per pixel: the stride of the index get_rgb_float computes.
Channels(s) ==
    CASE s \in {"DENOISE_RGB8", "DENOISE_RGB16"} -> 3
      [] s \in {"DENOISE_RGBA8", "DENOISE_RGBA16"} -> 4
      [] s \in {"OBJECT_ID_32", "DEPTH_16", "DEPTH_32",
                "MONOCHROME_LINES_8"} -> 1

\* The bytes of one pixel.
pixel_size_for_semantic(s) == ElementSize(s) * Channels(s)

(***************************************************************************)
(* Framing primitives: struct.pack / struct.unpack, slices of a mapping.   *)
(***************************************************************************)
Min(a, b) == IF a <= b THEN a ELSE b

\* pack(">L", n) for width 4, pack(">Q", n) for width 8.
RECURSIVE pack(_, _)
pack(n, width) ==
    IF width = 0 THEN <<>> ELSE Append(pack(n \div 256, width - 1), n % 256)

\* unpack(">L" / ">Q", buffer)[0], saturating at UnpackClamp.
RECURSIVE unpack(_)
unpack(buffer) ==
    IF buffer = <<>>
    THEN 0
    ELSE LET high == unpack(SubSeq(buffer, 1, Len(buffer) - 1))
         IN  IF high >= UnpackClamp \div 256
             THEN UnpackClamp
             ELSE high * 256 + buffer[Len(buffer)]

\* mm[start:end], with Python's clipping of a slice to the mapping.
Slice(mm, start, end) == SubSeq(mm, start + 1, Min(end, Len(mm)))

\* bytes(n)
RECURSIVE Zeros(_)
Zeros(n) == IF n <= 0 THEN <<>> ELSE Append(Zeros(n - 1), 0)

\* 0x894972530D0A1A0A
FILE_MAGIC_NUMBER == <<137, 73, 114, 83, 13, 10, 26, 10>>

\* 0x4972_535F_4D4E_4946
SECTION_IDENTIFIER_MANIFEST == <<73, 114, 83, 95, 77, 78, 73, 70>>

\* 0x4972_535F_454E_4421
SECTION_IDENTIFIER_END == <<73, 114, 83, 95, 69, 78, 68, 33>>

\* 0x4972_535F_494D_4744
SECTION_IDENTIFIER_IMAGE == <<73, 114, 83, 95, 73, 77, 71, 68>>

(***************************************************************************)
(* xml.py: the manifest text, as bytes.                                    *)
(***************************************************************************)
\* <Manifest xmlns="urn:com.io7m.ironsegment:manifest:1">
XML_MANIFEST_OPEN ==
    <<60, 77, 97, 110, 105, 102, 101, 115, 116, 32, 120, 109, 108, 110, 115,
      61, 34, 117, 114, 110, 58, 99, 111, 109, 46, 105, 111, 55, 109, 46,
      105, 114, 111, 110, 115, 101, 103, 109, 101, 110, 116, 58, 109, 97,
      110, 105, 102, 101, 115, 116, 58, 49, 34, 62>>

\* </Manifest>
XML_MANIFEST_CLOSE == <<60, 47, 77, 97, 110, 105, 102, 101, 115, 116, 62>>

\* <Images Width="
XML_IMAGES_OPEN ==
    <<60, 73, 109, 97, 103, 101, 115, 32, 87, 105, 100, 116, 104, 61, 34>>

\* " Height="
XML_IMAGES_HEIGHT == <<34, 32, 72, 101, 105, 103, 104, 116, 61, 34>>

\* </Images>
XML_IMAGES_CLOSE == <<60, 47, 73, 109, 97, 103, 101, 115, 62>>

\* <Image ID="
XML_IMAGE_OPEN == <<60, 73, 109, 97, 103, 101, 32, 73, 68, 61, 34>>

\* " Semantic="
XML_IMAGE_SEMANTIC == <<34, 32, 83, 101, 109, 97, 110, 116, 105, 99, 61, 34>>

\* <Objects/>
XML_OBJECTS_EMPTY == <<60, 79, 98, 106, 101, 99, 116, 115, 47, 62>>

\* <Objects>
XML_OBJECTS_OPEN == <<60, 79, 98, 106, 101, 99, 116, 115, 62>>

\* </Objects>
XML_OBJECTS_CLOSE == <<60, 47, 79, 98, 106, 101, 99, 116, 115, 62>>

\* <Object ID="
XML_OBJECT_OPEN == <<60, 79, 98, 106, 101, 99, 116, 32, 73, 68, 61, 34>>

\* </Object>
XML_OBJECT_CLOSE == <<60, 47, 79, 98, 106, 101, 99, 116, 62>>

\* <Metadata/>
XML_METADATA_EMPTY == <<60, 77, 101, 116, 97, 100, 97, 116, 97, 47, 62>>

\* <Metadata>
XML_METADATA_OPEN == <<60, 77, 101, 116, 97, 100, 97, 116, 97, 62>>

\* </Metadata>
XML_METADATA_CLOSE == <<60, 47, 77, 101, 116, 97, 100, 97, 116, 97, 62>>

\* <Meta Name="
XML_META_OPEN == <<60, 77, 101, 116, 97, 32, 78, 97, 109, 101, 61, 34>>

\* </Meta>
XML_META_CLOSE == <<60, 47, 77, 101, 116, 97, 62>>

\* ">
XML_TAG_END == <<34, 62>>

\* "/>
XML_TAG_END_EMPTY == <<34, 47, 62>>

\* str(n) for n >= 0, as ASCII bytes
RECURSIVE Decimal(_)
Decimal(n) ==
    IF n < 10 THEN <<48 + n>> ELSE Append(Decimal(n \div 10), 48 + (n % 10))

\* The keys of a mapping, in the order of insertion.
Keys(mapping) == [k \in 1..Len(mapping) |-> mapping[k].key]

\* mapping[key]
Lookup(mapping, key) ==
    mapping[CHOOSE k \in 1..Len(mapping) : mapping[k].key = key].value

\* key in mapping
HasKey(mapping, key) == \E k \in 1..Len(mapping) : mapping[k].key = key

RECURSIVE InsertSorted(_, _)
InsertSorted(key, keys) ==
    IF keys = <<>> THEN <<key>>
    ELSE IF key < keys[1] THEN <<key>> \o keys
    ELSE <<keys[1]>> \o InsertSorted(key, Tail(keys))

\* The keys left in the order of insertion.
sorted_as_inserted(keys) == keys

\* sorted(keys), for integer keys
RECURSIVE sorted(_)
sorted(keys) ==
    IF keys = <<>> THEN <<>> ELSE InsertSorted(keys[1], sorted(Tail(keys)))

\* Bytes a before bytes b in lexicographic order (str.__lt__).
RECURSIVE LexLess(_, _)
LexLess(a, b) ==
    IF b = <<>> THEN FALSE
    ELSE IF a = <<>> THEN TRUE
    ELSE IF a[1] # b[1] THEN a[1] < b[1]
    ELSE LexLess(Tail(a), Tail(b))

RECURSIVE InsertSortedName(_, _)
InsertSortedName(name, names) ==
    IF names = <<>> THEN <<name>>
    ELSE IF LexLess(name, names[1]) THEN <<name>> \o names
    ELSE <<names[1]>> \o InsertSortedName(name, Tail(names))

\* sorted(names), for string keys
RECURSIVE sorted_names(_)
sorted_names(names) ==
    IF names = <<>> THEN <<>>
    ELSE InsertSortedName(names[1], sorted_names(Tail(names)))

\* The Image elements appended for the identifiers iids, in that order.
RECURSIVE SerializeImages(_, _)
SerializeImages(images, iids) ==
    IF iids = <<>> THEN <<>>
    ELSE LET image == Lookup(images, iids[1])
         IN  XML_IMAGE_OPEN \o Decimal(image.identifier)
               \o XML_IMAGE_SEMANTIC \o SemanticName(image.semantic)
               \o XML_TAG_END_EMPTY
               \o SerializeImages(images, Tail(iids))

\* The Object elements appended for the identifiers oids, in that order.
RECURSIVE SerializeObjects(_, _)
SerializeObjects(objects, oids) ==
    IF oids = <<>> THEN <<>>
    ELSE LET object_value == Lookup(objects, oids[1])
         IN  XML_OBJECT_OPEN \o Decimal(object_value.identifier)
               \o XML_TAG_END \o object_value.description
               \o XML_OBJECT_CLOSE
               \o SerializeObjects(objects, Tail(oids))

\* The Meta elements appended for the names, in that order.
RECURSIVE SerializeMetadata(_, _)
SerializeMetadata(metadata, names) ==
    IF names = <<>> THEN <<>>
    ELSE XML_META_OPEN \o names[1] \o XML_TAG_END
           \o Lookup(metadata, names[1])
           \o XML_META_CLOSE
           \o SerializeMetadata(metadata, Tail(names))

\* serialize_manifest(manifest): etree.tostring of the tree it builds.  An
\* element without children is written as an empty-element tag.
serialize_manifest(m) ==
    XML_MANIFEST_OPEN
      \o XML_IMAGES_OPEN \o Decimal(m.images.width)
      \o XML_IMAGES_HEIGHT \o Decimal(m.images.height)
      \o (IF m.images.images = <<>>
          THEN XML_TAG_END_EMPTY
          ELSE XML_TAG_END
                 \o SerializeImages(m.images.images,
                                    sorted(Keys(m.images.images)))
                 \o XML_IMAGES_CLOSE)
      \o (IF m.objects = <<>>
          THEN XML_OBJECTS_EMPTY
          ELSE XML_OBJECTS_OPEN
                 \o SerializeObjects(m.objects, sorted(Keys(m.objects)))
                 \o XML_OBJECTS_CLOSE)
      \o (IF m.metadata = <<>>
          THEN XML_METADATA_EMPTY
          ELSE XML_METADATA_OPEN
                 \o SerializeMetadata(m.metadata,
                                      sorted_names(Keys(m.metadata)))
                 \o XML_METADATA_CLOSE)
      \o XML_MANIFEST_CLOSE

\* text[pos..] starts with the bytes lit (positions count from 1).
StartsWith(text, pos, lit) ==
    /\ pos + Len(lit) - 1 <= Len(text)
    /\ SubSeq(text, pos, pos + Len(lit) - 1) = lit

\* The first position at or after pos that holds no decimal digit.
RECURSIVE ScanDigits(_, _)
ScanDigits(text, pos) ==
    IF pos <= Len(text) /\ text[pos] >= 48 /\ text[pos] <= 57
    THEN ScanDigits(text, pos + 1)
    ELSE pos

\* The first position at or after pos that holds the byte stop, or the end.
RECURSIVE ScanUntil(_, _, _)
ScanUntil(text, pos, stop) ==
    IF pos <= Len(text) /\ text[pos] # stop
    THEN ScanUntil(text, pos + 1, stop)
    ELSE pos

\* int(str(digits)), saturating as unpack does
RECURSIVE ParseDecimal(_)
ParseDecimal(digits) ==
    IF digits = <<>>
    THEN 0
    ELSE LET high == ParseDecimal(SubSeq(digits, 1, Len(digits) - 1))
         IN  IF high >= UnpackClamp \div 10
             THEN UnpackClamp
             ELSE high * 10 + (digits[Len(digits)] - 48)

\* An assignment that replaces the mapping by the one entry.
PutAlone(mapping, key, value) == <<[key |-> key, value |-> value]>>

\* mapping[key] = value: a new key is appended, a known key keeps its place.
Put(mapping, key, value) ==
    IF HasKey(mapping, key)
    THEN [k \in 1..Len(mapping) |->
            IF mapping[k].key = key
            THEN [key |-> key, value |-> value]
            ELSE mapping[k]]
    ELSE Append(mapping, [key |-> key, value |-> value])

ParseFailure(error) == [ok |-> FALSE, error |-> error]

\* The semantic whose name, closed by "/>, stands at pos; "" when none does.
SemanticAt(text, pos) ==
    IF \E s \in ImageSemantic :
         StartsWith(text, pos, SemanticName(s) \o XML_TAG_END_EMPTY)
    THEN CHOOSE s \in ImageSemantic :
         StartsWith(text, pos, SemanticName(s) \o XML_TAG_END_EMPTY)
    ELSE ""

\* The loop of parse_manifest over the children of Images.
RECURSIVE ParseImages(_, _, _)
ParseImages(text, pos, images) ==
    IF ~StartsWith(text, pos, XML_IMAGE_OPEN)
    THEN [ok |-> TRUE, images |-> images, next |-> pos]
    ELSE LET id_start == pos + Len(XML_IMAGE_OPEN)
             id_end == ScanDigits(text, id_start)
             image_id == ParseDecimal(SubSeq(text, id_start, id_end - 1))
             sem_start == id_end + Len(XML_IMAGE_SEMANTIC)
             image_semantic == SemanticAt(text, sem_start)
         IN  IF \/ id_end = id_start
                \/ ~StartsWith(text, id_end, XML_IMAGE_SEMANTIC)
                \/ image_semantic = ""
             THEN ParseFailure("XMLSyntaxError")
             ELSE IF ~IdentifierInRange(image_id)
             THEN ParseFailure("IDs must be in the range")
             ELSE ParseImages(
                    text,
                    sem_start + Len(SemanticName(image_semantic))
                      + Len(XML_TAG_END_EMPTY),
                    Put(images, image_id,
                        [identifier |-> image_id,
                         semantic |-> image_semantic]))

\* The loop of parse_manifest over the children of Objects.
RECURSIVE ParseObjects(_, _, _)
ParseObjects(text, pos, objects) ==
    IF ~StartsWith(text, pos, XML_OBJECT_OPEN)
    THEN [ok |-> TRUE, objects |-> objects, next |-> pos]
    ELSE LET id_start == pos + Len(XML_OBJECT_OPEN)
             id_end == ScanDigits(text, id_start)
             object_id == ParseDecimal(SubSeq(text, id_start, id_end - 1))
             text_start == id_end + Len(XML_TAG_END)
             text_end == ScanUntil(text, text_start, 60)
             description == SubSeq(text, text_start, text_end - 1)
         IN  IF \/ id_end = id_start
                \/ ~StartsWith(text, id_end, XML_TAG_END)
                \/ ~StartsWith(text, text_end, XML_OBJECT_CLOSE)
             THEN ParseFailure("XMLSyntaxError")
             ELSE IF ~IdentifierInRange(object_id)
             THEN ParseFailure("IDs must be in the range")
             ELSE ParseObjects(
                    text,
                    text_end + Len(XML_OBJECT_CLOSE),
                    Put(objects, object_id,
                        [identifier |-> object_id,
                         description |-> description]))

\* The loop of parse_manifest over the children of Metadata.
RECURSIVE ParseMetadata(_, _, _)
ParseMetadata(text, pos, metadata) ==
    IF ~StartsWith(text, pos, XML_META_OPEN)
    THEN [ok |-> TRUE, metadata |-> metadata, next |-> pos]
    ELSE LET name_start == pos + Len(XML_META_OPEN)
             name_end == ScanUntil(text, name_start, 34)
             meta_name == SubSeq(text, name_start, name_end - 1)
             text_start == name_end + Len(XML_TAG_END)
             text_end == ScanUntil(text, text_start, 60)
             meta_text == SubSeq(text, text_start, text_end - 1)
         IN  IF \/ ~StartsWith(text, name_end, XML_TAG_END)
                \/ ~StartsWith(text, text_end, XML_META_CLOSE)
             THEN ParseFailure("XMLSyntaxError")
             ELSE ParseMetadata(
                    text,
                    text_end + Len(XML_META_CLOSE),
                    Put(metadata, meta_name, meta_text))

\* tree[0]: the Images element, with its Width and Height.
ParseImagesElement(text, pos) ==
    LET width_start == pos + Len(XML_IMAGES_OPEN)
        width_end == ScanDigits(text, width_start)
        height_start == width_end + Len(XML_IMAGES_HEIGHT)
        height_end == ScanDigits(text, height_start)
        dims == [width |->
                   ParseDecimal(SubSeq(text, width_start, width_end - 1)),
                 height |->
                   ParseDecimal(SubSeq(text, height_start, height_end - 1))]
    IN  IF \/ ~StartsWith(text, pos, XML_IMAGES_OPEN)
           \/ width_end = width_start
           \/ ~StartsWith(text, width_end, XML_IMAGES_HEIGHT)
           \/ height_end = height_start
        THEN ParseFailure("XMLSyntaxError")
        ELSE IF StartsWith(text, height_end, XML_TAG_END_EMPTY)
        THEN [ok |-> TRUE, dims |-> dims, images |-> <<>>,
              next |-> height_end + Len(XML_TAG_END_EMPTY)]
        ELSE IF ~StartsWith(text, height_end, XML_TAG_END)
        THEN ParseFailure("XMLSyntaxError")
        ELSE LET children ==
                   ParseImages(text, height_end + Len(XML_TAG_END), <<>>)
             IN  IF ~children.ok
                 THEN children
                 ELSE IF ~StartsWith(text, children.next, XML_IMAGES_CLOSE)
                 THEN ParseFailure("XMLSyntaxError")
                 ELSE [ok |-> TRUE, dims |-> dims,
                       images |-> children.images,
                       next |-> children.next + Len(XML_IMAGES_CLOSE)]

\* tree[1]: the Objects element.
ParseObjectsElement(text, pos) ==
    IF StartsWith(text, pos, XML_OBJECTS_EMPTY)
    THEN [ok |-> TRUE, objects |-> <<>>,
          next |-> pos + Len(XML_OBJECTS_EMPTY)]
    ELSE IF ~StartsWith(text, pos, XML_OBJECTS_OPEN)
    THEN ParseFailure("XMLSyntaxError")
    ELSE LET children ==
               ParseObjects(text, pos + Len(XML_OBJECTS_OPEN), <<>>)
         IN  IF ~children.ok
             THEN children
             ELSE IF ~StartsWith(text, children.next, XML_OBJECTS_CLOSE)
             THEN ParseFailure("XMLSyntaxError")
             ELSE [ok |-> TRUE, objects |-> children.objects,
                   next |-> children.next + Len(XML_OBJECTS_CLOSE)]

\* tree[2]: the Metadata element.
ParseMetadataElement(text, pos) ==
    IF StartsWith(text, pos, XML_METADATA_EMPTY)
    THEN [ok |-> TRUE, metadata |-> <<>>,
          next |-> pos + Len(XML_METADATA_EMPTY)]
    ELSE IF ~StartsWith(text, pos, XML_METADATA_OPEN)
    THEN ParseFailure("XMLSyntaxError")
    ELSE LET children ==
               ParseMetadata(text, pos + Len(XML_METADATA_OPEN), <<>>)
         IN  IF ~children.ok
             THEN children
             ELSE IF ~StartsWith(text, children.next, XML_METADATA_CLOSE)
             THEN ParseFailure("XMLSyntaxError")
             ELSE [ok |-> TRUE, metadata |-> children.metadata,
                   next |-> children.next + Len(XML_METADATA_CLOSE)]

\* parse_manifest(text): the document must be one Manifest element holding
\* Images, Objects and Metadata and nothing after it.
parse_manifest(text) ==
    IF ~StartsWith(text, 1, XML_MANIFEST_OPEN)
    THEN ParseFailure("XMLSyntaxError")
    ELSE LET images_tree ==
               ParseImagesElement(text, 1 + Len(XML_MANIFEST_OPEN))
         IN  IF ~images_tree.ok THEN images_tree
             ELSE LET objects_tree ==
                        ParseObjectsElement(text, images_tree.next)
             IN  IF ~objects_tree.ok THEN objects_tree
             ELSE LET metadata_tree ==
                        ParseMetadataElement(text, objects_tree.next)
             IN  IF ~metadata_tree.ok THEN metadata_tree
             ELSE IF \/ ~StartsWith(text, metadata_tree.next,
                                    XML_MANIFEST_CLOSE)
                     \/ metadata_tree.next + Len(XML_MANIFEST_CLOSE)
                          # Len(text) + 1
             THEN ParseFailure("XMLSyntaxError")
             ELSE [ok |-> TRUE,
                   manifest |->
                     [images |-> [width |-> images_tree.dims.width,
                                  height |-> images_tree.dims.height,
                                  images |-> images_tree.images],
                      objects |-> objects_tree.objects,
                      metadata |-> metadata_tree.metadata]]

(***************************************************************************)
(* binary1.py: FileWritable1                                               *)
(***************************************************************************)
\* A size rounded down to a multiple of 16.
aligned_size_floor(size) == (size \div 16) * 16

\* FileWritable1._aligned_size(size): int(math.ceil(size / 16.0) * 16)
aligned_size(size) == ((size + 15) \div 16) * 16

\* The loop of FileWritable1.open_file over the image identifiers iids: for
\* each, a section header, the position f.tell() of the payload, and
\* aligned_size zero bytes.
RECURSIVE WriteImageSections(_, _, _, _)
WriteImageSections(m, iids, f, writable_images) ==
    IF iids = <<>>
    THEN [f |-> f, writable_images |-> writable_images]
    ELSE LET image == Lookup(m.images.images, iids[1])
             size == pixel_size_for_semantic(image.semantic)
             total_size == m.images.width * m.images.height * size
             aligned == aligned_size(total_size)
             header == f \o SECTION_IDENTIFIER_IMAGE \o pack(aligned, 8)
             offset == Len(header)
         IN  WriteImageSections(
               m, Tail(iids), header \o Zeros(aligned),
               Append(writable_images,
                      [semantic |-> image.semantic,
                       offset |-> offset,
                       size |-> total_size]))

\* FileWritable1.open_file(path, manifest): the bytes written, the list
\* writable_images, and the length of the mapping.  f.flush() is called
\* after the MANIFEST section and after each IMAGE section header; what is
\* written after the last of these calls (the zero bytes of the last image,
\* the END section) is in the buffer of f, which is larger than any such
\* tail of the model, when mmap(length=0) maps the file as it is on disk.
FileWritable1_open_file(m) ==
    LET section_data == serialize_manifest(m)
        section_size == aligned_size(Len(section_data))
        f == FILE_MAGIC_NUMBER \o pack(1, 4) \o pack(0, 4)
               \o SECTION_IDENTIFIER_MANIFEST \o pack(section_size, 8)
               \o section_data
               \o Zeros(section_size - Len(section_data))
        written ==
          WriteImageSections(m, sorted(Keys(m.images.images)), f, <<>>)
    IN  [file |-> written.f \o SECTION_IDENTIFIER_END \o pack(0, 8),
         writable_images |-> written.writable_images,
         mapped_length |->
           IF written.writable_images = <<>>
           THEN Len(f)
           ELSE written.writable_images[Len(written.writable_images)]
                  .offset]

(***************************************************************************)
(* binary1.py: FileReadable1 and its sections                              *)
(***************************************************************************)
\* FileReadableSection1.__init__
FileReadableSection1(section_type, offset, size) ==
    [type |-> section_type,
     offset |-> offset,
     offset_data |-> offset + 16,
     size |-> size]

\* FileReadableSection1.name()
SectionName(section) ==
    CASE section.type = SECTION_IDENTIFIER_MANIFEST -> "MANIFEST"
      [] section.type = SECTION_IDENTIFIER_IMAGE -> "IMAGE"
      [] section.type = SECTION_IDENTIFIER_END -> "END"

Raised(error) == [ok |-> FALSE, error |-> error]

\* FileReadable1.check_magic_number(mm)
check_magic_number(mm) ==
    LET magic == Slice(mm, 0, 8)
    IN  IF Len(magic) # 8 THEN Raised("struct.error")
        ELSE IF magic # FILE_MAGIC_NUMBER THEN Raised("File magic number")
        ELSE [ok |-> TRUE]

\* A check_version that admits minor version 0 only.
check_version_minor_zero(mm) ==
    LET major_buffer == Slice(mm, 8, 12)
        minor_buffer == Slice(mm, 12, 16)
    IN  IF Len(major_buffer) # 4 \/ Len(minor_buffer) # 4
        THEN Raised("struct.error")
        ELSE IF unpack(major_buffer) # 1 \/ unpack(minor_buffer) # 0
        THEN Raised("File major version")
        ELSE [ok |-> TRUE, version_major |-> 1, version_minor |-> 0]

\* FileReadable1.check_version(mm)
check_version(mm) ==
    LET major_buffer == Slice(mm, 8, 12)
        minor_buffer == Slice(mm, 12, 16)
        version_major == unpack(major_buffer)
        version_minor == unpack(minor_buffer)
    IN  IF Len(major_buffer) # 4 \/ Len(minor_buffer) # 4
        THEN Raised("struct.error")
        ELSE IF version_major # 1 THEN Raised("File major version")
        ELSE [ok |-> TRUE,
              version_major |-> version_major,
              version_minor |-> version_minor]

\* A walk that keeps the first MANIFEST section it sees.
RECURSIVE WalkSectionsFirstManifest(_, _, _, _)
WalkSectionsFirstManifest(mm, offset, sections, manifest_section) ==
    LET section_type == Slice(mm, offset, offset + 8)
        section_size_buffer == Slice(mm, offset + 8, offset + 16)
        section ==
          FileReadableSection1(section_type, offset,
                               unpack(section_size_buffer))
        next == offset + 16 + section.size
    IN  IF Len(section_type) # 8 \/ Len(section_size_buffer) # 8
        THEN Raised("struct.error")
        ELSE IF section_type = SECTION_IDENTIFIER_MANIFEST
        THEN WalkSectionsFirstManifest(
               mm, next, Append(sections, section),
               IF manifest_section = <<>> THEN <<section>>
               ELSE manifest_section)
        ELSE IF section_type = SECTION_IDENTIFIER_IMAGE
        THEN WalkSectionsFirstManifest(mm, next, Append(sections, section),
                                       manifest_section)
        ELSE IF section_type = SECTION_IDENTIFIER_END
        THEN [ok |-> TRUE,
              sections |-> Append(sections, section),
              manifest_section |-> manifest_section]
        ELSE WalkSectionsFirstManifest(mm, next, sections, manifest_section)

\* The loop of FileReadable1.enumerate_sections, from offset on.
RECURSIVE WalkSections(_, _, _, _)
WalkSections(mm, offset, sections, manifest_section) ==
    LET section_type_buffer == Slice(mm, offset, offset + 8)
        section_size_buffer == Slice(mm, offset + 8, offset + 16)
        section_type == section_type_buffer
        section_size == unpack(section_size_buffer)
        section == FileReadableSection1(section_type, offset, section_size)
    IN  IF Len(section_type_buffer) # 8 \/ Len(section_size_buffer) # 8
        THEN Raised("struct.error")
        ELSE IF section_type = SECTION_IDENTIFIER_MANIFEST
        THEN WalkSections(mm, offset + 16 + section_size,
                          Append(sections, section), <<section>>)
        ELSE IF section_type = SECTION_IDENTIFIER_IMAGE
        THEN WalkSections(mm, offset + 16 + section_size,
                          Append(sections, section), manifest_section)
        ELSE IF section_type = SECTION_IDENTIFIER_END
        THEN [ok |-> TRUE,
              sections |-> Append(sections, section),
              manifest_section |-> manifest_section]
        ELSE WalkSections(mm, offset + 16 + section_size,
                          sections, manifest_section)

\* An enumerate_sections that takes the first section for the manifest
\* section where the walk has seen none.
enumerate_sections_unchecked(mm) ==
    LET walked == WalkSections(mm, 16, <<>>, <<>>)
    IN  IF ~walked.ok THEN walked
        ELSE [ok |-> TRUE,
              manifest_section |->
                IF walked.manifest_section = <<>>
                THEN walked.sections[1]
                ELSE walked.manifest_section[1],
              sections |-> walked.sections]

\* FileReadable1.enumerate_sections(mm); manifest_section is <<>> for None.
enumerate_sections(mm) ==
    LET walked == WalkSections(mm, 16, <<>>, <<>>)
    IN  IF ~walked.ok THEN walked
        ELSE IF walked.manifest_section = <<>>
        THEN Raised("File is missing a manifest section.")
        ELSE [ok |-> TRUE,
              manifest_section |-> walked.manifest_section[1],
              sections |-> walked.sections]

\* The bytes FileReadableSection1Manifest.manifest() hands to parse_manifest.
ManifestData(mm, section) ==
    LET manifest_start == section.offset_data + 4
        data_size == unpack(Slice(mm, section.offset_data, manifest_start))
    IN  Slice(mm, manifest_start, manifest_start + data_size)

\* FileReadableSection1Manifest.manifest()
SectionManifest(mm, section) ==
    IF Len(Slice(mm, section.offset_data, section.offset_data + 4)) # 4
    THEN Raised("struct.error")
    ELSE parse_manifest(ManifestData(mm, section))

\* The end of FileReadable1.open_file: the manifest is decoded and the
\* FileReadable1 constructed.
OpenManifest(version, enumerated, parsed) ==
    IF ~parsed.ok THEN parsed
    ELSE [ok |-> TRUE,
          version_major |-> version.version_major,
          version_minor |-> version.version_minor,
          manifest |-> parsed.manifest,
          sections |-> enumerated.sections]

\* FileReadable1.open_file after check_version: the sections are
\* enumerated.
OpenSections(mm, version, enumerated) ==
    IF ~enumerated.ok THEN enumerated
    ELSE OpenManifest(version, enumerated,
                      SectionManifest(mm, enumerated.manifest_section))

\* An open_file that checks the version before the magic number.
open_file_version_first(mm) ==
    IF ~check_version(mm).ok THEN check_version(mm)
    ELSE IF ~check_magic_number(mm).ok THEN check_magic_number(mm)
    ELSE OpenSections(mm, check_version(mm), enumerate_sections(mm))

\* FileReadable1.open_file(path), on a file that exists with the bytes mm.
FileReadable1_open_file(mm) ==
    IF ~check_magic_number(mm).ok THEN check_magic_number(mm)
    ELSE IF ~check_version(mm).ok THEN check_version(mm)
    ELSE OpenSections(mm, check_version(mm), enumerate_sections(mm))

\* FileReadableSection1Image.image_id()
image_id(mm, section) ==
    LET id_buffer == Slice(mm, section.offset_data, section.offset_data + 4)
        value == unpack(id_buffer)
    IN  IF Len(id_buffer) # 4 THEN Raised("struct.error")
        ELSE IF ~IdentifierInRange(value)
        THEN Raised("IDs must be in the range")
        ELSE [ok |-> TRUE, value |-> value]

\* FileReadable1.image_section(image_id), over the sections from k on.
RECURSIVE image_section(_, _, _, _)
image_section(mm, sections, k, id) ==
    IF k > Len(sections)
    THEN Raised("No such image section")
    ELSE IF sections[k].type # SECTION_IDENTIFIER_IMAGE
    THEN image_section(mm, sections, k + 1, id)
    ELSE LET embedded == image_id(mm, sections[k])
         IN  IF ~embedded.ok THEN embedded
             ELSE IF embedded.value = id
             THEN [ok |-> TRUE, section |-> sections[k]]
             ELSE image_section(mm, sections, k + 1, id)

\* FileReadable1.image_data(image_id): the view ImageReadable1 is built
\* over, with the bytes np.frombuffer is given.
image_data(mm, r, id) ==
    LET found == image_section(mm, r.sections, 1, id)
        section == found.section
        semantic == Lookup(r.manifest.images.images, id).semantic
        a_start == section.offset_data + 4
        a_end == a_start + section.size
        buffer == Slice(mm, a_start, a_end)
    IN  IF ~found.ok THEN found
        ELSE IF ~HasKey(r.manifest.images.images, id)
        THEN Raised("KeyError")
        ELSE IF Len(buffer) % ElementSize(semantic) # 0
        THEN Raised("buffer size must be a multiple of element size")
        ELSE [ok |-> TRUE,
              semantic |-> semantic,
              width |-> r.manifest.images.width,
              height |-> r.manifest.images.height,
              a_start |-> a_start,
              a_end |-> a_end,
              data |-> buffer]

(***************************************************************************)
(* binary1.py: ImageReadable1                                              *)
(*                                                                         *)
(* A float64 is a record [n, e] standing for n / 2^e, with n odd or e = 0: *)
(* the samples are integers below 2^32 divided by powers of two, which     *)
(* float64 represents exactly.  The dividend of np.divide is a record      *)
(* [n, shift] standing for n * 2^shift.                                    *)
(***************************************************************************)
RECURSIVE Float(_, _)
Float(n, e) ==
    IF n = 0 THEN [n |-> 0, e |-> 0]
    ELSE IF e > 0 /\ n % 2 = 0 THEN Float(n \div 2, e - 1)
    ELSE [n |-> n, e |-> e]

\* An integer element as a dividend.
Whole(n) == [n |-> n, shift |-> 0]

\* The dividends 4294967296, 65536 and 256.0: 2^bits.
PowerOfTwo(bits) == [n |-> 1, shift |-> bits]

\* np.divide(x, 2^bits) of one dividend
divide(x, bits) == Float(x.n, bits - x.shift)

\* np.divide(out, 2^bits) of an array
divide_all(out, bits) == [k \in 1..Len(out) |-> divide(out[k], bits)]

\* np.full(count, value)
full(count, value) == [k \in 1..count |-> value]

\* The number of elements of the typed array of a view.
DataLength(v) == Len(v.data) \div ElementSize(v.semantic)

\* self._data[index], for an index inside the array
Element(v, index) ==
    unpack(SubSeq(v.data,
                  index * ElementSize(v.semantic) + 1,
                  (index + 1) * ElementSize(v.semantic)))

\* The indices self._data[start : stop] selects (a slice is clipped).
SliceIndices(v, start, stop) ==
    {k \in start..(stop - 1) : k < DataLength(v)}

\* self._data[start : stop], as dividends
SliceElements(v, start, stop) ==
    [k \in 1..Cardinality(SliceIndices(v, start, stop)) |->
       Whole(Element(v, start + k - 1))]

SampleRaised(error) == [ok |-> FALSE, error |-> error, reads |-> {}]

Sampled(value, reads) == [ok |-> TRUE, value |-> value, reads |-> reads]

\* The single-element cases: np.full(count, self._data[index]), with the
\* last of four components set to 2^bits, divided by 2^bits.
SampleScalar(v, index, count, bits) ==
    IF index >= DataLength(v)
    THEN [ok |-> FALSE, error |-> "IndexError", reads |-> {index}]
    ELSE LET out == full(count, Whole(Element(v, index)))
         IN  Sampled(
               divide_all(IF count = 4
                          THEN [out EXCEPT ![4] = PowerOfTwo(bits)]
                          ELSE out,
                          bits),
               {index})

\* A slice read one element late.
SampleSliceLate(v, index, count, bits) ==
    Sampled(divide_all(SliceElements(v, index + 1, index + 1 + count), bits),
            SliceIndices(v, index + 1, index + 1 + count))

\* The slice cases: self._data[index : index + count] divided by 2^bits.
SampleSlice(v, index, count, bits) ==
    Sampled(divide_all(SliceElements(v, index, index + count), bits),
            SliceIndices(v, index, index + count))

\* An RGB case of get_rgba_float that leaves the fourth component at the
\* 1.0 of np.full, so that the division yields 1/2^bits.
SampleSliceUnitAlpha(v, index, bits) ==
    LET rgb == SliceElements(v, index, index + 3)
    IN  Sampled(divide_all(rgb \o <<Whole(1)>>, bits),
                SliceIndices(v, index, index + 3))

\* The RGB cases of get_rgba_float: np.full(4, 1.0), its first three
\* components assigned from the slice, the last set to 2^bits.
SampleSliceOpaque(v, index, bits) ==
    LET rgb == SliceElements(v, index, index + 3)
        reads == SliceIndices(v, index, index + 3)
    IN  IF Len(rgb) \notin {1, 3}
        THEN [ok |-> FALSE, error |-> "could not broadcast",
              reads |-> reads]
        ELSE Sampled(
               divide_all(<<rgb[1],
                            rgb[IF Len(rgb) = 3 THEN 2 ELSE 1],
                            rgb[IF Len(rgb) = 3 THEN 3 ELSE 1],
                            PowerOfTwo(bits)>>,
                          bits),
               reads)

\* A get_object_id that tests the semantic before the coordinates.
get_object_id_semantic_first(v, x, y) ==
    IF v.semantic # "OBJECT_ID_32"
    THEN SampleRaised("Cannot fetch object IDs")
    ELSE IF x >= v.width THEN SampleRaised("X component")
    ELSE IF y >= v.height THEN SampleRaised("Y component")
    ELSE Sampled(Element(v, (y * v.width) + x), {(y * v.width) + x})

\* A get_object_id that indexes the array by columns.
get_object_id_by_columns(v, x, y) ==
    IF x >= v.width THEN SampleRaised("X component")
    ELSE IF y >= v.height THEN SampleRaised("Y component")
    ELSE IF v.semantic = "OBJECT_ID_32"
    THEN Sampled(Element(v, (x * v.height) + y), {(x * v.height) + y})
    ELSE SampleRaised("Cannot fetch object IDs")

\* ImageReadable1.get_object_id(x, y)
get_object_id(v, x, y) ==
    IF x >= v.width THEN SampleRaised("X component")
    ELSE IF y >= v.height THEN SampleRaised("Y component")
    ELSE IF v.semantic = "OBJECT_ID_32"
    THEN LET index == (y * v.width) + x
         IN  IF index >= DataLength(v)
             THEN [ok |-> FALSE, error |-> "IndexError", reads |-> {index}]
             ELSE Sampled(Element(v, index), {index})
    ELSE SampleRaised("Cannot fetch object IDs")

\* The match statement of get_rgb_float.
RgbFloatOfSemantic(v, x, y) ==
    CASE v.semantic = "OBJECT_ID_32" ->
           SampleScalar(v, (y * v.width) + x, 3, 32)
      [] v.semantic = "DEPTH_16" ->
           SampleScalar(v, (y * v.width) + x, 3, 16)
      [] v.semantic = "DEPTH_32" ->
           SampleScalar(v, (y * v.width) + x, 3, 32)
      [] v.semantic = "DENOISE_RGB8" ->
           SampleSlice(v, (y * v.width * 3) + (x * 3), 3, 8)
      [] v.semantic = "DENOISE_RGBA8" ->
           SampleSlice(v, (y * v.width * 4) + (x * 4), 3, 8)
      [] v.semantic = "DENOISE_RGBA16" ->
           SampleSlice(v, (y * v.width * 4) + (x * 4), 3, 16)
      [] v.semantic = "DENOISE_RGB16" ->
           SampleSlice(v, (y * v.width * 3) + (x * 3), 3, 16)
      [] v.semantic = "MONOCHROME_LINES_8" ->
           SampleScalar(v, (y * v.width) + x, 3, 8)

\* ImageReadable1.get_rgb_float(x, y)
get_rgb_float(v, x, y) ==
    IF x >= v.width THEN SampleRaised("X component")
    ELSE IF y >= v.height THEN SampleRaised("Y component")
    ELSE RgbFloatOfSemantic(v, x, y)

\* The match statement of get_rgba_float.
RgbaFloatOfSemantic(v, x, y) ==
    CASE v.semantic = "OBJECT_ID_32" ->
           SampleScalar(v, (y * v.width) + x, 4, 32)
      [] v.semantic = "DEPTH_16" ->
           SampleScalar(v, (y * v.width) + x, 4, 16)
      [] v.semantic = "DEPTH_32" ->
           SampleScalar(v, (y * v.width) + x, 4, 32)
      [] v.semantic = "DENOISE_RGB8" ->
           SampleSliceOpaque(v, (y * v.width * 3) + (x * 3), 8)
      [] v.semantic = "DENOISE_RGBA8" ->
           SampleSlice(v, (y * v.width * 4) + (x * 4), 4, 8)
      [] v.semantic = "DENOISE_RGBA16" ->
           SampleSlice(v, (y * v.width * 4) + (x * 4), 4, 16)
      [] v.semantic = "DENOISE_RGB16" ->
           SampleSliceOpaque(v, (y * v.width * 3) + (x * 3), 16)
      [] v.semantic = "MONOCHROME_LINES_8" ->
           SampleScalar(v, (y * v.width) + x, 4, 8)

\* A get_rgba_float that tests y before x.
get_rgba_float_y_first(v, x, y) ==
    IF y >= v.height THEN SampleRaised("Y component")
    ELSE IF x >= v.width THEN SampleRaised("X component")
    ELSE RgbaFloatOfSemantic(v, x, y)

\* ImageReadable1.get_rgba_float(x, y)
get_rgba_float(v, x, y) ==
    IF x >= v.width THEN SampleRaised("X component")
    ELSE IF y >= v.height THEN SampleRaised("Y component")
    ELSE RgbaFloatOfSemantic(v, x, y)

(***************************************************************************)
(* Files of the published format (the layout the reader is written for,    *)
(* as the fixtures tests/example-0.isb and tests/full.isb have it).        *)
(***************************************************************************)
\* The raw value of channel c of the pixel (x, y): the pixel at position x
\* of the first row holds x in its first channel, as in full.isb.
FixtureElement(x, y, c) == x + c + (16 * y)

\* The pixel bytes of an image, from element e on, in row-major order.
RECURSIVE FixturePixels(_, _, _, _)
FixturePixels(width, height, semantic, e) ==
    IF e >= width * height * Channels(semantic)
    THEN <<>>
    ELSE LET pixel == e \div Channels(semantic)
         IN  pack(FixtureElement(pixel % width, pixel \div width,
                                 e % Channels(semantic)),
                  ElementSize(semantic))
               \o FixturePixels(width, height, semantic, e + 1)

\* One IMAGE section: u32 image_id || pixel_bytes || zero_pad_to(size).
FixtureImageSection(m, image) ==
    LET payload ==
          pack(image.identifier, 4)
            \o FixturePixels(m.images.width, m.images.height,
                             image.semantic, 0)
        size == aligned_size(Len(payload))
    IN  SECTION_IDENTIFIER_IMAGE \o pack(size, 8)
          \o payload \o Zeros(size - Len(payload))

RECURSIVE FixtureImageSections(_, _)
FixtureImageSections(m, iids) ==
    IF iids = <<>> THEN <<>>
    ELSE FixtureImageSection(m, Lookup(m.images.images, iids[1]))
           \o FixtureImageSections(m, Tail(iids))

\* header, MANIFEST (u32 xml_len || xml_bytes || zero_pad_to(size)), one
\* IMAGE section per image, END.
FixtureFile(m) ==
    LET xml == serialize_manifest(m)
        payload == pack(Len(xml), 4) \o xml
        size == aligned_size(Len(payload))
    IN  FILE_MAGIC_NUMBER \o pack(1, 4) \o pack(0, 4)
          \o SECTION_IDENTIFIER_MANIFEST \o pack(size, 8)
          \o payload \o Zeros(size - Len(payload))
          \o FixtureImageSections(m, sorted(Keys(m.images.images)))
          \o SECTION_IDENTIFIER_END \o pack(0, 8)

(***************************************************************************)
(* The manifests a caller builds.                                          *)
(***************************************************************************)
\* The semantic with the enumeration value n.
SemanticOfValue(n) == CHOOSE s \in ImageSemantic : SemanticValue(s) = n

\* The sequences of distinct identifiers out of 1..MaxImages: the orders in
\* which a caller can insert images into the mapping.
InsertionOrders ==
    {order \in UNION {[1..n -> 1..MaxImages] : n \in 0..MaxImages} :
       \A i, j \in DOMAIN order : i # j => order[i] # order[j]}

\* The images inserted in the given order; the first has the semantic
\* first, the following ones step through the enumeration by half its
\* length, so that two images starting from the first half of the
\* enumeration reach every semantic.
ImagesOf(order, first) ==
    [k \in DOMAIN order |->
       [key |-> order[k],
        value |->
          [identifier |-> order[k],
           semantic |->
             SemanticOfValue((SemanticValue(first) + (4 * (k - 1))) % 8)]]]

\* Objects and metadata: none, or two of each inserted out of order, one
\* object with an empty description.
Extras ==
    { [objects |-> <<>>, metadata |-> <<>>],
      [objects |->
         << [key |-> 2,
             value |-> [identifier |-> 2, description |-> <<99, 97, 116>>]],
            [key |-> 1,
             value |-> [identifier |-> 1, description |-> <<>>]] >>,
       metadata |->
         << [key |-> <<107, 50>>, value |-> <<118>>],
            [key |-> <<107, 49>>, value |-> <<>>] >>] }

Manifests ==
    { [images |-> [width |-> w, height |-> h,
                   images |-> ImagesOf(order, first)],
       objects |-> extra.objects,
       metadata |-> extra.metadata] :
        w \in 1..MaxWidth, h \in 1..MaxHeight, order \in InsertionOrders,
        first \in {s \in ImageSemantic : SemanticValue(s) < 4},
        extra \in Extras }

(***************************************************************************)
(* The state machine: a caller of the library working on one path.         *)
(***************************************************************************)
NoReader == [state |-> "none"]

NoView == [state |-> "none"]

NoSample == [op |-> "none"]

NoIdentifier == [class |-> "none"]

Init ==
    /\ manifest \in Manifests
    /\ origin \in {"absent", "fixture"}
    /\ file = IF origin = "fixture" THEN FixtureFile(manifest) ELSE <<>>
    /\ writer = [state |-> "none", writable_images |-> <<>>]
    /\ reader = NoReader
    /\ view = NoView
    /\ sample = NoSample
    /\ identifier = NoIdentifier

\* with FileWritable1.open_file(path, manifest) as w:
WriterOpen ==
    /\ writer.state = "none"
    /\ reader.state = "none"
    /\ LET opened == FileWritable1_open_file(manifest)
       IN  /\ file' = opened.file
           /\ writer' = [state |-> "open",
                         writable_images |-> opened.writable_images,
                         mapped_length |-> opened.mapped_length]
    /\ origin' = "writer"
    /\ UNCHANGED <<identifier, manifest, reader, view, sample>>

\* FileWritable1.__exit__
WriterClose ==
    /\ writer.state = "open"
    /\ writer' = [writer EXCEPT !.state = "closed"]
    /\ UNCHANGED <<identifier, manifest, origin, file, reader, view, sample>>

\* The reader after FileReadable1.open_file returned or raised; file_open
\* and map_open tell whether the file object f and the mapping mm that the
\* call created are open.  open_file closes neither: where a check raises,
\* both are left as they are, referenced by the frame of the call.
OpenedReader(opened) ==
    IF opened.ok
    THEN [state |-> "open",
          version_major |-> opened.version_major,
          version_minor |-> opened.version_minor,
          manifest |-> opened.manifest,
          sections |-> opened.sections,
          file_open |-> TRUE,
          map_open |-> TRUE]
    ELSE [state |-> "failed", error |-> opened.error,
          file_open |-> TRUE, map_open |-> TRUE]

\* with FileReadable1.open_file(path) as f:
ReaderOpen ==
    /\ reader.state = "none"
    /\ writer.state # "open"
    /\ reader' =
         IF origin = "absent"
         THEN [state |-> "failed", error |-> "FileNotFoundError",
               file_open |-> FALSE, map_open |-> FALSE]
         ELSE OpenedReader(FileReadable1_open_file(file))
    /\ UNCHANGED <<identifier, manifest, origin, file, writer, view, sample>>

\* FileReadable1.__exit__
ReaderClose ==
    /\ reader.state = "open"
    /\ reader' = [state |-> "closed", file_open |-> FALSE, map_open |-> FALSE]
    /\ view' = NoView
    /\ sample' = NoSample
    /\ UNCHANGED <<identifier, manifest, origin, file, writer>>

\* The view after FileReadable1.image_data returned or raised.
BuiltView(id, built) ==
    IF built.ok
    THEN [state |-> "ok",
          image_id |-> id,
          semantic |-> built.semantic,
          width |-> built.width,
          height |-> built.height,
          a_start |-> built.a_start,
          a_end |-> built.a_end,
          data |-> built.data]
    ELSE [state |-> "failed", image_id |-> id, error |-> built.error]

\* data = f.image_data(ImageID(id))
ImageData(id) ==
    /\ reader.state = "open"
    /\ view' = BuiltView(id, image_data(file, reader, id))
    /\ sample' = NoSample
    /\ UNCHANGED <<identifier, manifest, origin, file, writer, reader>>

SampleOf(op, x, y, result) ==
    [op |-> op, x |-> x, y |-> y, result |-> result]

\* data.get_object_id(x, y)
GetObjectId(x, y) ==
    /\ view.state = "ok"
    /\ sample' = SampleOf("get_object_id", x, y, get_object_id(view, x, y))
    /\ UNCHANGED <<identifier, manifest, origin, file, writer, reader, view>>

\* data.get_rgb_float(x, y)
GetRgbFloat(x, y) ==
    /\ view.state = "ok"
    /\ sample' = SampleOf("get_rgb_float", x, y, get_rgb_float(view, x, y))
    /\ UNCHANGED <<identifier, manifest, origin, file, writer, reader, view>>

\* data.get_rgba_float(x, y)
GetRgbaFloat(x, y) ==
    /\ view.state = "ok"
    /\ sample' = SampleOf("get_rgba_float", x, y, get_rgba_float(view, x, y))
    /\ UNCHANGED <<identifier, manifest, origin, file, writer, reader, view>>

\* The identifiers a caller asks for: those of the manifest and one more.
RequestedIds == 1..(MaxImages + 1)

\* The coordinates a caller samples: every pixel of the largest image, and
\* with x = width and y = height at least one step past each edge of every
\* image.
RequestedX == 0..MaxWidth

RequestedY == 0..MaxHeight

Next ==
    \/ WriterOpen
    \/ WriterClose
    \/ ReaderOpen
    \/ ReaderClose
    \/ \E id \in RequestedIds : ImageData(id)
    \/ \E x \in RequestedX, y \in RequestedY : GetObjectId(x, y)
    \/ \E x \in RequestedX, y \in RequestedY : GetRgbFloat(x, y)
    \/ \E x \in RequestedX, y \in RequestedY : GetRgbaFloat(x, y)

Spec == Init /\ [][Next]_vars

(***************************************************************************)
(* Files on disk that depart from the published layout: FileReadable1      *)
(* maps whatever bytes the path holds.                                     *)
(***************************************************************************)
\* The bytes f with those from offset start on overwritten.
ReplaceAt(f, start, bytes) ==
    [i \in 1..Len(f) |->
       IF i > start /\ i <= start + Len(bytes) THEN bytes[i - start]
       ELSE f[i]]

\* The bytes f with more inserted at offset start.
InsertAt(f, start, bytes) ==
    SubSeq(f, 1, start) \o bytes \o SubSeq(f, start + 1, Len(f))

\* A section kind the decoder does not know: "IrS_UNKN".
UnknownKind == <<73, 114, 83, 95, 85, 78, 75, 78>>

\* The section headers of a file of the published layout, in file order.
FramedSections(f) ==
    LET walked == WalkSections(f, 16, <<>>, <<>>)
    IN  IF walked.ok THEN walked.sections ELSE <<>>

\* Its IMAGE sections.
FramedImages(f) ==
    SelectSeq(FramedSections(f),
              LAMBDA section : section.type = SECTION_IDENTIFIER_IMAGE)

\* The ways a file departs from the layout.
Departures ==
    {"bad magic", "bad magic and major", "major 0", "major 2",
     "minor 1", "minor 16777215", "unknown section", "after END",
     "cut END header", "no END", "size past EOF", "duplicate id",
     "zero id", "short section", "no manifest", "second manifest"}

\* The departures a file of the published layout admits: a duplicate needs
\* two IMAGE sections, a shortened section one of more than 16 bytes.
Admits(f, departure) ==
    LET images == FramedImages(f)
    IN  CASE departure = "duplicate id" -> Len(images) >= 2
          [] departure = "short section" ->
               images[Len(images)].size > 16
          [] OTHER -> TRUE

\* The last IMAGE section of f cut down to 16 bytes: the identifier and the
\* first 12 bytes of pixels.
ShortenLastImage(f) ==
    LET images == FramedImages(f)
        last == images[Len(images)]
    IN  SubSeq(f, 1, last.offset + 8) \o pack(16, 8)
          \o SubSeq(f, last.offset_data + 1, last.offset_data + 16)
          \o SubSeq(f, last.offset_data + last.size + 1, Len(f))

\* A MANIFEST section holding the payload, padded to a multiple of 16.
ManifestSectionOfPayload(payload) ==
    SECTION_IDENTIFIER_MANIFEST \o pack(aligned_size(Len(payload)), 8)
      \o payload \o Zeros(aligned_size(Len(payload)) - Len(payload))

\* A MANIFEST section holding the text behind its u32 length.
ManifestSectionOf(xml) ==
    ManifestSectionOfPayload(pack(Len(xml), 4) \o xml)

\* The manifest m with the height raised by one.
TallerManifest(m) ==
    [m EXCEPT !.images.height = m.images.height + 1]

\* A second MANIFEST section for the file f: the manifest of its first one
\* with the height raised by one.
SecondManifestSection(f) ==
    ManifestSectionOf(
      serialize_manifest(
        TallerManifest(
          parse_manifest(ManifestData(f, FramedSections(f)[1])).manifest)))

\* The file f of the published layout, with one departure.
Departed(f, departure) ==
    LET images == FramedImages(f)
        last == images[Len(images)]
    IN  CASE departure = "bad magic" -> ReplaceAt(f, 7, <<11>>)
          [] departure = "bad magic and major" ->
               ReplaceAt(ReplaceAt(f, 7, <<11>>), 8, pack(2, 4))
          [] departure = "major 0" -> ReplaceAt(f, 8, pack(0, 4))
          [] departure = "major 2" -> ReplaceAt(f, 8, pack(2, 4))
          [] departure = "minor 1" -> ReplaceAt(f, 12, pack(1, 4))
          [] departure = "minor 16777215" ->
               ReplaceAt(f, 12, <<0, 255, 255, 255>>)
          [] departure = "unknown section" ->
               InsertAt(f, images[1].offset,
                        UnknownKind \o pack(16, 8) \o Zeros(16))
          [] departure = "after END" ->
               f \o SECTION_IDENTIFIER_IMAGE \o pack(16, 8)
                 \o pack(MaxImages + 1, 4) \o Zeros(12)
                 \o SECTION_IDENTIFIER_END \o pack(0, 8)
          [] departure = "cut END header" -> SubSeq(f, 1, Len(f) - 8)
          [] departure = "no END" -> SubSeq(f, 1, Len(f) - 16)
          [] departure = "size past EOF" ->
               ReplaceAt(f, last.offset + 8, pack(last.size + 64, 8))
          [] departure = "duplicate id" ->
               ReplaceAt(f, images[2].offset_data,
                         SubSeq(f, images[1].offset_data + 1,
                                images[1].offset_data + 4))
          [] departure = "zero id" ->
               ReplaceAt(f, images[1].offset_data, pack(0, 4))
          [] departure = "short section" -> ShortenLastImage(f)
          [] departure = "no manifest" ->
               SubSeq(f, 1, 16) \o SubSeq(f, images[1].offset + 1, Len(f))
          [] departure = "second manifest" ->
               InsertAt(f, Len(f) - 16, SecondManifestSection(f))

\* The manifests of the files that depart: one image or more, inserted in
\* ascending order, no objects and no metadata.
FileManifests ==
    {m \in Manifests :
       /\ m.objects = <<>>
       /\ m.metadata = <<>>
       /\ Len(m.images.images) >= 1
       /\ \A k \in DOMAIN m.images.images : m.images.images[k].key = k}

FilesInit ==
    /\ manifest \in FileManifests
    /\ origin = "fixture"
    /\ file = FixtureFile(manifest)
    /\ writer = [state |-> "none", writable_images |-> <<>>]
    /\ reader = NoReader
    /\ view = NoView
    /\ sample = NoSample
    /\ identifier = NoIdentifier

\* Something other than this library leaves the file with a departure.
Depart(departure) ==
    /\ origin = "fixture"
    /\ reader.state = "none"
    /\ Admits(file, departure)
    /\ file' = Departed(file, departure)
    /\ origin' = departure
    /\ UNCHANGED <<identifier, manifest, writer, reader, view, sample>>

FilesNext ==
    \/ \E departure \in Departures : Depart(departure)
    \/ ReaderOpen
    \/ ReaderClose
    \/ \E id \in RequestedIds : ImageData(id)
    \/ \E x \in RequestedX, y \in RequestedY : GetObjectId(x, y)
    \/ \E x \in RequestedX, y \in RequestedY : GetRgbFloat(x, y)
    \/ \E x \in RequestedX, y \in RequestedY : GetRgbaFloat(x, y)

FilesSpec == FilesInit /\ [][FilesNext]_vars

(***************************************************************************)
(* A caller constructing identifiers from integers.                        *)
(***************************************************************************)
\* The integers a caller passes: around zero, around 2^16, around 2^31 and
\* around 2^32, and their negatives.
WideIntegers ==
    {Wide(hi, lo) :
       hi \in {-65537, -65536, -2, -1, 0, 1, 32768, 65535, 65536, 65537},
       lo \in {0, 1, 2, 32768, 65534, 65535}}

IdInit ==
    /\ manifest = [images |-> [width |-> 1, height |-> 1, images |-> <<>>],
                   objects |-> <<>>, metadata |-> <<>>]
    /\ origin = "absent"
    /\ file = <<>>
    /\ writer = [state |-> "none", writable_images |-> <<>>]
    /\ reader = NoReader
    /\ view = NoView
    /\ sample = NoSample
    /\ identifier = NoIdentifier

\* ImageID(value)
ConstructImageID(value) ==
    /\ identifier' =
         [class |-> "ImageID", argument |-> value, result |-> ImageID(value)]
    /\ UNCHANGED <<manifest, origin, file, writer, reader, view, sample>>

\* ObjectID(value)
ConstructObjectID(value) ==
    /\ identifier' =
         [class |-> "ObjectID", argument |-> value,
          result |-> ObjectID(value)]
    /\ UNCHANGED <<manifest, origin, file, writer, reader, view, sample>>

IdNext ==
    \/ \E value \in WideIntegers : ConstructImageID(value)
    \/ \E value \in WideIntegers : ConstructObjectID(value)

IdSpec == IdInit /\ [][IdNext]_vars

(***************************************************************************)
(* Properties.                                                             *)
(***************************************************************************)
\* The file on disk was produced by FileWritable1.open_file(path, manifest).
WriterProduced == origin = "writer"

\* FileReadable1.open_file has been called on the file and has returned or
\* raised.
ReaderAttempted == reader.state \in {"open", "failed"}

\* The sections of the file on disk, in file order; none where the walk over
\* the section headers runs off the end of the file.
SectionsOnDisk ==
    LET walked == WalkSections(file, 16, <<>>, <<>>)
    IN  IF walked.ok THEN walked.sections ELSE <<>>

IsImageSection(section) == section.type = SECTION_IDENTIFIER_IMAGE

\* The IMAGE sections of the file on disk, in file order.
ImageSectionsOnDisk == SelectSeq(SectionsOnDisk, IsImageSection)

\* The identifiers of the images of the manifest, as a set.
ManifestImageIds ==
    {manifest.images.images[k].key : k \in DOMAIN manifest.images.images}

\* The k-th identifier of the manifest in ascending numeric order.
AscendingId(k) ==
    CHOOSE i \in ManifestImageIds :
      Cardinality({j \in ManifestImageIds : j < i}) = k - 1

\* The image of the manifest with the k-th identifier in ascending order.
AscendingImage(k) == Lookup(manifest.images.images, AscendingId(k))

\* width * height * bpp(semantic), for the manifest given to the writer
PixelBytes(semantic) ==
    manifest.images.width * manifest.images.height
      * pixel_size_for_semantic(semantic)

\* The least multiple of 16 that is at least n.
Align16(n) == CHOOSE a \in n..(n + 15) : a % 16 = 0

\* C1: a file written by Writer.open from a manifest M is accepted by
\* Reader.open: the open succeeds, reports version_major 1 and lists
\* |M.images.images| + 2 sections: MANIFEST first, IMAGE in the middle, END
\* last.
C1_WriterFileAccepted ==
    (WriterProduced /\ ReaderAttempted) =>
      /\ reader.state = "open"
      /\ reader.version_major = 1
      /\ Len(reader.sections) = Len(manifest.images.images) + 2
      /\ SectionName(reader.sections[1]) = "MANIFEST"
      /\ \A k \in 2..(Len(reader.sections) - 1) :
           SectionName(reader.sections[k]) = "IMAGE"
      /\ SectionName(reader.sections[Len(reader.sections)]) = "END"

\* C2: on a file written by Writer.open from M, Reader.image_data(i.id)
\* succeeds for every image i of M and returns a view with i's semantic.
C2_WriterFileImageData ==
    (WriterProduced /\ ReaderAttempted) =>
      /\ reader.state = "open"
      /\ \A k \in DOMAIN manifest.images.images :
           LET i == manifest.images.images[k].value
           IN  /\ image_data(file, reader, i.identifier).ok
               /\ image_data(file, reader, i.identifier).semantic
                    = i.semantic

\* The IMAGE section a view was built over.
ViewSection == image_section(file, reader.sections, 1, view.image_id).section

\* C3: when Reader.image_data(id) succeeds, the bytes under the view are
\* [data_offset + 4, data_offset + 4 + width*height*bpp(semantic)) of the
\* located section: width*height*bpp bytes, ending inside the payload of
\* that section.
C3_ViewSliceIsPixelBytes ==
    view.state = "ok" =>
      LET total ==
            view.width * view.height * pixel_size_for_semantic(view.semantic)
      IN  /\ view.a_start = ViewSection.offset_data + 4
          /\ view.a_end = view.a_start + total
          /\ Len(view.data) = total
          /\ view.a_end <= ViewSection.offset_data + ViewSection.size

\* The identifier embedded at the start of the payload of a section.
EmbeddedId(section) ==
    unpack(Slice(file, section.offset_data, section.offset_data + 4))

\* C4: in a file written by Writer.open from M, every IMAGE payload starts
\* with the 4-byte big-endian identifier of its image, and the embedded
\* identifiers in file order are the keys of M.images.images in ascending
\* order.
C4_WriterEmbedsImageIds ==
    WriterProduced =>
      /\ Len(ImageSectionsOnDisk) = Cardinality(ManifestImageIds)
      /\ \A k \in 1..Len(ImageSectionsOnDisk) :
           EmbeddedId(ImageSectionsOnDisk[k]) = AscendingId(k)

\* The entries of writable_images follow the images of M in ascending
\* ImageID order, each offset after the first being the previous one +
\* align16(width*height*bpp(previous semantic)) + 16; the spacing of the
\* offsets 1248, 2800, 3840 of the test is that of 512 pixels of
\* DENOISE_RGB8, then of DEPTH_16.
WritableImagesChained ==
    LET images == writer.writable_images
    IN  /\ Len(images) = Cardinality(ManifestImageIds)
        /\ \A k \in 1..Len(images) :
             images[k].semantic = AscendingImage(k).semantic
        /\ \A k \in 1..(Len(images) - 1) :
             images[k + 1].offset
               = images[k].offset
                   + Align16(PixelBytes(AscendingImage(k).semantic)) + 16
        /\ aligned_size(512 * pixel_size_for_semantic("DENOISE_RGB8")) + 16
             = 2800 - 1248
        /\ aligned_size(512 * pixel_size_for_semantic("DEPTH_16")) + 16
             = 3840 - 2800

\* The size field of the MANIFEST section of the file on disk.
ManifestSectionSize == unpack(Slice(file, 24, 32))

\* C5, as amended: writable_images has one entry per image of M in
\* ascending ImageID order; the first offset is 16 (file header) + 16
\* (MANIFEST section header) + the MANIFEST section size + 16 (the header of
\* the first IMAGE section), and each following offset is the previous one
\* + align16(width*height*bpp(previous semantic)) + 16.
C5_WritableImageOffsets ==
    writer.state # "none" =>
      /\ WritableImagesChained
      /\ Len(writer.writable_images) >= 1 =>
           writer.writable_images[1].offset
             = 16 + 16 + ManifestSectionSize + 16

\* C5 as stated: the first offset is 16 (file header) + 16 (MANIFEST section
\* header) + the MANIFEST section size.
C5_FirstOffsetAtManifestEnd ==
    writer.state # "none" =>
      /\ WritableImagesChained
      /\ Len(writer.writable_images) >= 1 =>
           writer.writable_images[1].offset = 16 + 16 + ManifestSectionSize

\* C5 witness: the writer returned two writable images for a manifest whose
\* images were inserted in descending order of identifier.
C5_Witness ==
    /\ writer.state = "open"
    /\ Len(writer.writable_images) = 2
    /\ manifest.images.images[1].key > manifest.images.images[2].key
    /\ writer.writable_images[1].semantic
         # writer.writable_images[2].semantic

\* C6: for every entry of writable_images, size = width*height*bpp(semantic),
\* the region [offset, offset + size) lies inside the payload of the IMAGE
\* section of that image, every byte of it is zero, and the regions of two
\* entries are disjoint.
C6_WritableRegions ==
    writer.state # "none" =>
      LET images == writer.writable_images
      IN  /\ Len(images) = Len(ImageSectionsOnDisk)
          /\ \A k \in 1..Len(images) :
               LET section == ImageSectionsOnDisk[k]
               IN  /\ images[k].size = PixelBytes(AscendingImage(k).semantic)
                   /\ images[k].semantic = AscendingImage(k).semantic
                   /\ section.offset_data <= images[k].offset
                   /\ images[k].offset + images[k].size
                        <= section.offset_data + section.size
                   /\ images[k].offset + images[k].size <= Len(file)
                   /\ \A b \in (images[k].offset + 1)
                                 ..(images[k].offset + images[k].size) :
                        file[b] = 0
          /\ \A j, k \in 1..Len(images) :
               j < k =>
                 images[j].offset + images[j].size <= images[k].offset

\* C6 witness: two writable regions, the first of a size that is no
\* multiple of 16.
C6_Witness ==
    /\ writer.state = "open"
    /\ Len(writer.writable_images) = 2
    /\ writer.writable_images[1].size % 16 # 0
    /\ writer.writable_images[2].size > 0

\* C7: the MANIFEST section of a file written by Writer.open has the payload
\* u32_be(len(xml)) || xml || zero padding and a size that is a multiple of
\* 16 covering prefix and xml, so that the reader's extraction yields
\* serialize_manifest(M).
C7_WriterManifestPayload ==
    WriterProduced =>
      LET xml == serialize_manifest(manifest)
          section == SectionsOnDisk[1]
          payload ==
            Slice(file, section.offset_data,
                  section.offset_data + section.size)
      IN  /\ SectionName(section) = "MANIFEST"
          /\ section.size % 16 = 0
          /\ section.size >= 4 + Len(xml)
          /\ payload
               = pack(Len(xml), 4) \o xml
                   \o Zeros(section.size - 4 - Len(xml))
          /\ ManifestData(file, section) = xml

\* A call of get_object_id has returned or raised.
ObjectIdSampled == sample.op = "get_object_id"

C9_ObjectIdElement ==
    (ObjectIdSampled /\ view.semantic = "OBJECT_ID_32") =>
      IF sample.x < view.width /\ sample.y < view.height
      THEN LET index == (sample.y * view.width) + sample.x
           IN  /\ sample.result.ok
               /\ sample.result.value
                    = unpack(Slice(file, view.a_start + (4 * index),
                                   view.a_start + (4 * index) + 4))
               /\ sample.result.value
                    = FixtureElement(sample.x, sample.y, 0)
               /\ sample.result.reads = {index}
      ELSE /\ ~sample.result.ok
           /\ sample.result.error =
                IF sample.x >= view.width THEN "X component"
                ELSE "Y component"

\* C9 witness: an object identifier read from the second row and second
\* column of an OBJECT_ID_32 view.
C9_Witness ==
    /\ ObjectIdSampled
    /\ view.semantic = "OBJECT_ID_32"
    /\ sample.x = 1
    /\ sample.y = 1
    /\ sample.result.ok
    /\ sample.result.value = 17

\* C10: for every semantic and every (x, y) with x >= width or y >= height,
\* get_rgb_float and get_rgba_float fail out of bounds and read no pixel
\* data; the message names the X component when x >= width (also when y is
\* out of range too) and the Y component when only y >= height.
C10_FloatOutOfBounds ==
    ( /\ sample.op \in {"get_rgb_float", "get_rgba_float"}
      /\ (sample.x >= view.width \/ sample.y >= view.height) ) =>
      /\ ~sample.result.ok
      /\ sample.result.reads = {}
      /\ sample.result.error =
           IF sample.x >= view.width THEN "X component" ELSE "Y component"

\* C10 witness: get_rgba_float with both coordinates out of range.
C10_Witness ==
    /\ sample.op = "get_rgba_float"
    /\ sample.x >= view.width
    /\ sample.y >= view.height
    /\ ~sample.result.ok

\* The number of channels of a pixel, as the decoder's contract states it: 3
\* for DENOISE_RGB8/RGB16, 4 for DENOISE_RGBA8/RGBA16, 1 otherwise.
ContractChannels(semantic) ==
    IF semantic \in {"DENOISE_RGB8", "DENOISE_RGB16"} THEN 3
    ELSE IF semantic \in {"DENOISE_RGBA8", "DENOISE_RGBA16"} THEN 4
    ELSE 1

\* The width of an element in bits: D = 2^bits is 256, 65536 or 4294967296.
ContractBits(semantic) ==
    IF semantic \in {"DENOISE_RGB8", "DENOISE_RGBA8", "MONOCHROME_LINES_8"}
    THEN 8
    ELSE IF semantic \in {"DENOISE_RGB16", "DENOISE_RGBA16", "DEPTH_16"}
    THEN 16
    ELSE 32

\* The element e[i] of the image the view is over, read from the file: the
\* big-endian integer at a_start + i * (bits / 8).
ElementOnDisk(i) ==
    LET bytes == ContractBits(view.semantic) \div 8
    IN  unpack(Slice(file, view.a_start + (i * bytes),
                     view.a_start + ((i + 1) * bytes)))

\* e[i] / D
Normalized(i) == Float(ElementOnDisk(i), ContractBits(view.semantic))

\* The index i = y*width*ch + x*ch of the sampled pixel.
SampledIndex ==
    LET ch == ContractChannels(view.semantic)
    IN  (sample.y * view.width * ch) + (sample.x * ch)

\* The sampled coordinates are inside the image.
SampledInBounds == sample.x < view.width /\ sample.y < view.height

\* The three colour components the contract gives the sampled pixel.
ContractRgb ==
    LET i == SampledIndex
    IN  IF ContractChannels(view.semantic) = 1
        THEN <<Normalized(i), Normalized(i), Normalized(i)>>
        ELSE <<Normalized(i), Normalized(i + 1), Normalized(i + 2)>>

\* C11: for every semantic and every in-bounds (x, y), get_rgb_float(x, y)
\* is (e[i], e[i+1], e[i+2]) / D for the multi-channel semantics and
\* (e[i], e[i], e[i]) / D for the single-channel ones, with
\* i = y*width*ch + x*ch, ch = 3 for RGB, 4 for RGBA (alpha discarded), 1
\* otherwise, and D = 2^8, 2^16 or 2^32 by element width.
C11_RgbFloatValue ==
    (sample.op = "get_rgb_float" /\ SampledInBounds) =>
      /\ sample.result.ok
      /\ sample.result.value = ContractRgb
      /\ ElementOnDisk(SampledIndex)
           = FixtureElement(sample.x, sample.y, 0)

\* C11 witness: the second pixel of the second row of a DENOISE_RGBA16
\* image, whose channels hold 17, 18, 19 (and alpha 20).
C11_Witness ==
    /\ sample.op = "get_rgb_float"
    /\ view.semantic = "DENOISE_RGBA16"
    /\ sample.x = 1
    /\ sample.y = 1
    /\ sample.result.ok
    /\ sample.result.value = <<Float(17, 16), Float(18, 16), Float(19, 16)>>

\* C12: for every semantic and every in-bounds (x, y), the first three
\* components of get_rgba_float(x, y) are get_rgb_float(x, y), and the
\* fourth is exactly 1.0 for the semantics without an alpha channel and
\* e[i+3] / D, i = y*width*4 + x*4, for DENOISE_RGBA8 and DENOISE_RGBA16.
C12_RgbaFloatValue ==
    (sample.op = "get_rgba_float" /\ SampledInBounds) =>
      /\ sample.result.ok
      /\ Len(sample.result.value) = 4
      /\ SubSeq(sample.result.value, 1, 3)
           = get_rgb_float(view, sample.x, sample.y).value
      /\ SubSeq(sample.result.value, 1, 3) = ContractRgb
      /\ sample.result.value[4] =
           IF view.semantic \in {"DENOISE_RGBA8", "DENOISE_RGBA16"}
           THEN Normalized((sample.y * view.width * 4) + (sample.x * 4) + 3)
           ELSE Float(1, 0)

\* C12 witness: an opaque pixel of a DENOISE_RGB16 image and, in another
\* image, the alpha 20/256 of a DENOISE_RGBA8 pixel.
C12_Witness ==
    /\ sample.op = "get_rgba_float"
    /\ sample.x = 1
    /\ sample.y = 1
    /\ sample.result.ok
    /\ \/ /\ view.semantic = "DENOISE_RGB16"
          /\ sample.result.value
               = <<Float(17, 16), Float(18, 16), Float(19, 16), Float(1, 0)>>
       \/ /\ view.semantic = "DENOISE_RGBA8"
          /\ sample.result.value[4] = Float(20, 8)

\* A float64 component lies in [0.0, 1.0]: n / 2^e with 0 <= n <= 2^e (an
\* element is below 2^25, so every n is below 2^e from e = 25 on).
InUnitInterval(c) ==
    /\ c.n >= 0
    /\ IF c.e = 0 THEN c.n <= 1 ELSE c.e >= 25 \/ c.n < 2 ^ c.e

\* A call of get_rgb_float or get_rgba_float has returned or raised.
FloatSampled == sample.op \in {"get_rgb_float", "get_rgba_float"}

\* C13: on a view obtained from Reader.image_data, for every semantic and
\* every in-bounds (x, y), get_rgb_float returns exactly 3 components and
\* get_rgba_float exactly 4, each in [0.0, 1.0]; a call returns a complete
\* tuple or an error, never a shorter tuple.
C13_CompleteTuples ==
    (FloatSampled /\ SampledInBounds /\ sample.result.ok) =>
      /\ Len(sample.result.value)
           = IF sample.op = "get_rgb_float" THEN 3 ELSE 4
      /\ \A k \in DOMAIN sample.result.value :
           InUnitInterval(sample.result.value[k])

\* The integer v = hi * 65536 + lo satisfies 1 <= v <= 4294967295: hi is in
\* 0..65535, and lo is not 0 where hi is.
InIdentifierRange(v) ==
    /\ v.hi >= 0
    /\ v.hi <= 65535
    /\ (v.hi = 0 => v.lo >= 1)

\* C14: constructing an ImageID or an ObjectID from the integer v succeeds
\* iff 1 <= v <= 4294967295, and then .value is v; for v = 0, a negative v
\* and v >= 4294967296 it fails with an error and yields no identifier.
C14_IdentifierRange ==
    identifier.class \in {"ImageID", "ObjectID"} =>
      IF InIdentifierRange(identifier.argument)
      THEN /\ identifier.result.ok
           /\ identifier.result.value = identifier.argument
      ELSE /\ ~identifier.result.ok
           /\ identifier.result.error = "IDs must be in the range"
           /\ "value" \notin DOMAIN identifier.result

\* C14 witness: the ImageID of 4294967295 is constructed.
C14_Witness ==
    /\ identifier.class = "ImageID"
    /\ identifier.argument = Wide(65535, 65535)
    /\ identifier.result.ok
    /\ identifier.result.value = Wide(65535, 65535)

\* The first 8 bytes of the file are there and are not the magic number
\* 0x894972530D0A1A0A.
BadMagicOnDisk ==
    /\ Len(file) >= 8
    /\ SubSeq(file, 1, 8) # <<137, 73, 114, 83, 13, 10, 26, 10>>

\* The big-endian u32 at bytes 8..12 of the file is there and is not 1.
BadMajorOnDisk ==
    /\ Len(file) >= 12
    /\ SubSeq(file, 9, 12) # <<0, 0, 0, 1>>

\* C15: Reader.open fails with the bad-magic error whenever the first 8
\* bytes of the file differ from the magic number; the magic is checked
\* before the version and before any section is read, so a file with a bad
\* magic and an unsupported major version reports bad magic, and no Reader
\* is returned.
C15_BadMagicFirst ==
    (ReaderAttempted /\ BadMagicOnDisk) =>
      /\ reader.state = "failed"
      /\ reader.error = "File magic number"

\* C15 witness: Reader.open has been called on a file with a bad magic
\* number and major version 2.
C15_Witness ==
    /\ origin = "bad magic and major"
    /\ BadMagicOnDisk
    /\ BadMajorOnDisk
    /\ reader.state = "failed"
    /\ reader.error = "File magic number"

\* C16: for a file with the correct magic, Reader.open fails with the
\* unsupported-version error iff the u32 at bytes 8..12 is not 1; the minor
\* version at bytes 12..16 causes no failure, and after a successful open
\* version_major and version_minor are the two stored values.
C16_MajorVersionOnly ==
    (ReaderAttempted /\ Len(file) >= 16 /\ ~BadMagicOnDisk) =>
      /\ (reader.state = "failed" /\ reader.error = "File major version")
           <=> BadMajorOnDisk
      /\ origin \in {"minor 1", "minor 16777215"} => reader.state = "open"
      /\ reader.state = "open" =>
           /\ reader.version_major = 1
           /\ pack(reader.version_major, 4) = SubSeq(file, 9, 12)
           /\ pack(reader.version_minor, 4) = SubSeq(file, 13, 16)

\* C16 witness: a file with minor version 16777215 has been opened.
C16_Witness ==
    /\ origin = "minor 16777215"
    /\ reader.state = "open"
    /\ reader.version_major = 1
    /\ reader.version_minor = 16777215

\* The positions in sections() of the IMAGE sections whose embedded 4-byte
\* identifier is id.
SectionsEmbedding(id) ==
    {k \in DOMAIN reader.sections :
       /\ reader.sections[k].type = SECTION_IDENTIFIER_IMAGE
       /\ Slice(file, reader.sections[k].offset_data,
                reader.sections[k].offset_data + 4) = pack(id, 4)}

\* The least of a set of positions.
First(positions) == CHOOSE k \in positions : \A j \in positions : k <= j

\* C17: image_section(id), as image_data(id) calls it, finds the first IMAGE
\* section in file order whose embedded identifier is id, and fails with 'No
\* such image section' iff no IMAGE section embeds id, whatever the other
\* IMAGE sections embed (a 0 in a section before the match included).
C17_FirstMatchingSection ==
    (reader.state = "open" /\ view.state # "none") =>
      LET matching == SectionsEmbedding(view.image_id)
      IN  /\ (view.state = "failed" /\ view.error = "No such image section")
               <=> matching = {}
          /\ view.state = "failed" =>
               view.error \in
                 {"No such image section", "KeyError",
                  "buffer size must be a multiple of element size"}
          /\ view.state = "ok" =>
               view.a_start
                 = reader.sections[First(matching)].offset_data + 4

\* The (key, value) pairs of a mapping, as a set.
Pairs(mapping) == {mapping[k] : k \in DOMAIN mapping}

\* The keys of a mapping are pairwise distinct.
DistinctKeys(mapping) ==
    \A j, k \in DOMAIN mapping : mapping[j].key = mapping[k].key => j = k

\* Two manifests agree on width, height, the (image id, semantic) pairs, the
\* (object id, description) pairs and the metadata key-value map.
SameManifest(a, b) ==
    /\ a.images.width = b.images.width
    /\ a.images.height = b.images.height
    /\ Pairs(a.images.images) = Pairs(b.images.images)
    /\ Pairs(a.objects) = Pairs(b.objects)
    /\ Pairs(a.metadata) = Pairs(b.metadata)
    /\ DistinctKeys(a.images.images) /\ DistinctKeys(b.images.images)
    /\ DistinctKeys(a.objects) /\ DistinctKeys(b.objects)
    /\ DistinctKeys(a.metadata) /\ DistinctKeys(b.metadata)

\* C18: for every valid manifest M, parse_manifest(serialize_manifest(M))
\* equals M on width, height, the set of (image id, semantic) pairs, the set
\* of (object id, description) pairs (an empty description stays empty) and
\* the metadata key-value map.  The reader parses the serialized manifest of
\* a file of the published layout and keeps the result while it is open.
C18_ManifestRoundTrip ==
    (origin = "fixture" /\ ReaderAttempted) =>
      /\ reader.state = "open"
      /\ view = NoView =>
           reader.manifest
             = parse_manifest(serialize_manifest(manifest)).manifest
      /\ SameManifest(reader.manifest, manifest)

\* C18 witness: a manifest with two images inserted in descending order, an
\* object with an empty description and metadata has been serialized and
\* parsed; the parsed mappings are in ascending order.
C18_Witness ==
    /\ origin = "fixture"
    /\ reader.state = "open"
    /\ Len(manifest.images.images) = 2
    /\ manifest.images.images[1].key > manifest.images.images[2].key
    /\ \E k \in DOMAIN manifest.objects :
         manifest.objects[k].value.description = <<>>
    /\ \E k \in DOMAIN reader.manifest.objects :
         reader.manifest.objects[k].value.description = <<>>
    /\ Len(reader.manifest.metadata) = 2
    /\ reader.manifest # manifest

\* The framed records of the file on disk: from the byte offset given, one
\* record [kind, offset, size] per complete 16-byte header, in steps of
\* 16 + size, up to and including the first END record; truncated is TRUE
\* when the file ends before a complete END header is reached.
RECURSIVE FramedRecords(_, _)
FramedRecords(offset, records) ==
    IF offset + 16 > Len(file)
    THEN [records |-> records, truncated |-> TRUE]
    ELSE LET kind == SubSeq(file, offset + 1, offset + 8)
             size == unpack(SubSeq(file, offset + 9, offset + 16))
             record == [kind |-> kind, offset |-> offset, size |-> size]
         IN  IF kind = <<73, 114, 83, 95, 69, 78, 68, 33>>
             THEN [records |-> Append(records, record), truncated |-> FALSE]
             ELSE FramedRecords(offset + 16 + size, Append(records, record))

RecordsOnDisk == FramedRecords(16, <<>>)

\* C19: after a successful Reader.open, sections() holds exactly one entry
\* per framed record found by walking from offset 16 in steps of 16 + size
\* up to and including the first END record, in file order: records of
\* unknown kind are entries too, the END entry is the last and the only END
\* entry, and nothing after the first END is listed.
C19_SectionsAreFramedRecords ==
    reader.state = "open" =>
      LET records == RecordsOnDisk.records
          sections == reader.sections
      IN  /\ Len(sections) = Len(records)
          /\ \A k \in 1..Len(sections) :
               k <= Len(records) =>
                 /\ sections[k].offset = records[k].offset
                 /\ sections[k].size = records[k].size
                 /\ sections[k].type = records[k].kind
          /\ \A k \in 1..Len(sections) :
               sections[k].type = SECTION_IDENTIFIER_END
                 <=> k = Len(sections)

\* The errors the library raises itself: its ValueError messages.
LibraryErrors ==
    {"File magic number", "File major version",
     "File is missing a manifest section.", "IDs must be in the range",
     "No such image section"}

\* C20: the section walk terminates on every finite file: if the file ends
\* before a complete 16-byte END header is reached (a truncated header, a
\* size pointing past the end of the file, or no END record), Reader.open
\* fails with an error of the library's error family; it does not return a
\* Reader or fail with an exception of another type.
C20_TruncationIsLibraryError ==
    ( /\ ReaderAttempted
      /\ ~BadMagicOnDisk /\ ~BadMajorOnDisk
      /\ RecordsOnDisk.truncated ) =>
      /\ reader.state = "failed"
      /\ reader.error \in LibraryErrors

\* A MANIFEST record is among the framed records of the file on disk.
ManifestRecordOnDisk ==
    \E k \in DOMAIN RecordsOnDisk.records :
      RecordsOnDisk.records[k].kind = <<73, 114, 83, 95, 77, 78, 73, 70>>

\* C21: if the section walk reaches END without having seen a MANIFEST
\* record, Reader.open fails with 'File is missing a manifest section.' and
\* returns no Reader; if a MANIFEST record precedes END, that error is not
\* raised.
C21_ManifestMissing ==
    ( /\ ReaderAttempted
      /\ ~BadMagicOnDisk /\ ~BadMajorOnDisk
      /\ ~RecordsOnDisk.truncated ) =>
      ( /\ reader.state = "failed"
        /\ reader.error = "File is missing a manifest section." )
        <=> ~ManifestRecordOnDisk

\* C21 witness: Reader.open has failed on a file whose walk reaches END past
\* IMAGE sections only.
C21_Witness ==
    /\ origin = "no manifest"
    /\ ~RecordsOnDisk.truncated
    /\ Len(RecordsOnDisk.records) >= 2
    /\ ~ManifestRecordOnDisk
    /\ reader.state = "failed"
    /\ reader.error = "File is missing a manifest section."

\* C22: on every exit path of Reader.open, the file handle and the mapping
\* the call acquired are both owned by the returned Reader or both released:
\* where open fails (bad magic, unsupported major version, truncated
\* sections, missing manifest, invalid manifest XML) neither remains open.
C22_HandlesOwnedOrReleased ==
    ReaderAttempted =>
      IF reader.state = "open"
      THEN reader.file_open /\ reader.map_open
      ELSE ~reader.file_open /\ ~reader.map_open

\* C23: in Writer.open, every byte written (header, manifest section, the
\* zeroed image payloads, END) has been flushed to the file before the file
\* is mapped for writing, so that the mapping is as long as the final file
\* and contains [offset, offset + size) of every writable image, the last
\* one included.
C23_MappingCoversFile ==
    writer.state = "open" =>
      /\ writer.mapped_length = Len(file)
      /\ \A k \in DOMAIN writer.writable_images :
           writer.writable_images[k].offset + writer.writable_images[k].size
             <= writer.mapped_length

\* A section size frames content of the given length: it is a multiple of
\* 16, at least the length, and exceeds it by fewer than 16 bytes.
Frames(size, length) ==
    /\ size % 16 = 0
    /\ size >= length
    /\ size - length < 16

\* C24: in every file written by Writer.open, the size field of every
\* section is a multiple of 16 and frames its payload content (the length
\* prefix and the xml for MANIFEST, the identifier prefix and the
\* width*height*bpp pixel bytes for IMAGE); END has size 0.
C24_WriterSectionSizes ==
    WriterProduced =>
      LET sections == SectionsOnDisk
          images == ImageSectionsOnDisk
      IN  /\ Len(sections) = Len(images) + 2
          /\ Frames(sections[1].size, 4 + Len(serialize_manifest(manifest)))
          /\ Len(images) = Cardinality(ManifestImageIds)
          /\ \A k \in 1..Len(images) :
               Frames(images[k].size,
                      4 + PixelBytes(AscendingImage(k).semantic))
          /\ sections[Len(sections)].type = SECTION_IDENTIFIER_END
          /\ sections[Len(sections)].size = 0

\* The positions of the MANIFEST records among the framed records of the
\* file on disk.
ManifestRecords ==
    {k \in DOMAIN RecordsOnDisk.records :
       RecordsOnDisk.records[k].kind = <<73, 114, 83, 95, 77, 78, 73, 70>>}

\* The manifest decoded from the framed record at position k: the text of
\* the length its u32 prefix gives, parsed.
ManifestOfRecord(k) ==
    LET start == RecordsOnDisk.records[k].offset + 16
        length == unpack(SubSeq(file, start + 1, start + 4))
    IN  parse_manifest(SubSeq(file, start + 5, start + 4 + length)).manifest

\* The greatest of a set of positions.
Last(positions) == CHOOSE k \in positions : \A j \in positions : j <= k

\* C25: a file with more than one MANIFEST record before END is not
\* rejected by Reader.open; every MANIFEST record is listed in sections(),
\* and the manifest that image_data takes semantic, width and height from is
\* the one decoded from the last MANIFEST record in file order.
C25_LastManifestWins ==
    /\ (origin = "second manifest" /\ ReaderAttempted) =>
         reader.state = "open"
    /\ reader.state = "open" =>
         /\ {k \in DOMAIN reader.sections :
               reader.sections[k].type = SECTION_IDENTIFIER_MANIFEST}
              = ManifestRecords
         /\ view = NoView =>
              reader.manifest = ManifestOfRecord(Last(ManifestRecords))
         /\ origin = "second manifest" =>
              /\ Cardinality(ManifestRecords) = 2
              /\ reader.manifest.images.height = manifest.images.height + 1
         /\ view.state = "ok" =>
              /\ view.width = reader.manifest.images.width
              /\ view.height = reader.manifest.images.height
              /\ view.semantic
                   = Lookup(reader.manifest.images.images, view.image_id)
                       .semantic

\* C25 witness: a view built from a file with two MANIFEST records has the
\* height the second one declares.
C25_Witness ==
    /\ origin = "second manifest"
    /\ reader.state = "open"
    /\ Cardinality(ManifestRecords) = 2
    /\ view.state = "ok"
    /\ view.height = manifest.images.height + 1
    /\ ManifestOfRecord(Last(ManifestRecords)).images.height = view.height

====
